---- MODULE Spec2Model ----
(***************************************************************************)
(* A model of the example programs of chuk-mcp-function-server:            *)
(*   - the stdio JSON-RPC client (WeatherCalculationsMCPClient) talking    *)
(*     through a pair of pipes to a server subprocess,                     *)
(*   - the HTTP JSON-RPC client (WeatherCalculationsHTTPClient),           *)
(*   - the demo and benchmark drivers that start a server, use a client    *)
(*     and stop the server again.                                          *)
(* The server itself (chuk_mcp_server) is not part of the source tree: it  *)
(* appears as the environment, answering the requests it reads in order.   *)
(***************************************************************************)
EXTENDS Integers, Sequences, FiniteSets, TLC

\* ------------------------------------------------------------------ bounds

\* Number of client calls a demonstration function makes (initialize and the
\* entries of its list of tool calls).
MaxCalls == 3

\* Number of calls an arbitrary caller of the stdio client makes.
MaxFreeCalls == 2

\* Number of calls an arbitrary caller of the HTTP client makes.
MaxHttpCalls == 2

\* ------------------------------------------------------------- JSON values

\* The id of a message that has none (a notification, a line that is no JSON).
NoId == -1

\* Python's None, as the value of a dictionary lookup.
None == "None"

\* The values of a response's "error" member: not there, JSON null, an object.
ErrorVals == {"absent", "null", "E"}

\* The values of a response's "result" member: not there, an object.
ResultVals == {"absent", "R"}

\* The line a process that is not the expected server writes: no JSON at all.
Garbage == [json |-> FALSE, id |-> NoId, result |-> "absent", error |-> "absent"]

\* The response slot of a call in which send_message returned nothing.
NoResp == [json |-> FALSE, id |-> NoId, result |-> "none", error |-> "none"]

\* A wrong reading of the error check: "error" in response, which takes a
\* null error for an error.
GetErrorKeyPresent(resp) == IF resp.error = "absent" THEN None ELSE resp.error

\* response.get("error"): the member's value, None when it is not there or null.
GetError(resp) == IF resp.error \in {"absent", "null"} THEN None ELSE resp.error


\* ------------------------------------------------------------------- state

VARIABLES
    client,         \* which client class this run instantiates: "stdio" or "http"
    driver,         \* who calls the client: "free" (any caller) or "demo"
    dpc,            \* the demonstration function's position
    ncalls,         \* client method calls begun so far
    process,        \* stdio client: self.process (None or the subprocess object)
    message_id,     \* stdio client: self.message_id
    alive,          \* the server subprocess is running
    returncode,     \* process.returncode as asyncio has it (None until reaped)
    stdin,          \* lines written to the server's stdin, not yet read by it
    stdout,         \* lines written by the server to its stdout, not yet read
    pc,             \* "idle", or "await_line": inside send_message, at readline
    cur,            \* the call in flight: its method and the id it wrote
    last,           \* the last call that ended: how, and with what
    envelopes,      \* every request envelope send_message has built, in order
    session,        \* HTTP client: self.session (None, an open or a closed client)
    session_id,     \* HTTP client: self.session_id
    http_message_id,\* HTTP client: self.message_id
    observed,       \* the mcp-session-id of the latest response that carried one
    http_sent,      \* every HTTP request the client has issued, in order
    http_last,      \* the last HTTP client call that ended: how, and with what
    bpc,            \* benchmark_stdio_single_threaded: its position
    init_resp,      \* benchmark: what _send_message returned for initialize
    op_index,       \* benchmark: the loop variable i
    errors,         \* benchmark: the errors counter
    stage,          \* main(): the function it is in
    step,           \* the position of that function in its list of steps
    attempt,        \* the readiness poll's loop variable
    server_works,   \* main(): what the connectivity check returned, once it has
    attempted,      \* the steps begun so far, as <<stage, step>>
    failed,         \* the steps that raised
    printed,        \* the steps whose failure was printed
    wire,           \* every line written to the server's stdin, in order
    nread,          \* lines the client has taken from the server's stdout
    nreturned,      \* calls of send_message that returned a response
    nmalformed,     \* calls of send_message that read a line that was no JSON
    gpc,            \* benchmark_http_concurrent: its position
    wpc,            \* each worker's position
    worker_latencies, \* each worker's own list of latencies
    worker_errors,  \* each worker's own error counter
    all_latencies,  \* the shared list of latencies
    total_errors,   \* the shared error counter
    tool,           \* the calculation tool the server was last asked for
    args,           \* the arguments of that call
    result,         \* what its handler returned, or the exception it raised
    catalogue,      \* the names handed to register_tool so far, in order
    origin,         \* the celsius value the fahrenheit argument was converted from
    port_taken,     \* another server already answers on the HTTP port
    probes,         \* GET /health requests the readiness poll has made
    poll_outcome,   \* how the readiness poll ended, once it has
    terminate_sent, \* terminate() was called on the HTTP server subprocess
    total_operations, \* benchmark_http_concurrent: its first argument
    concurrency,    \* benchmark_http_concurrent: its second argument
    worker_id,      \* the worker whose requests are being posted
    worker_posts,   \* the requests that worker has posted so far
    request_ids,    \* the ids of the requests the workers have posted
    nposted         \* the number of requests the workers have posted

stdioVars == <<process, message_id, alive, returncode, stdin, stdout, pc, cur,
               last, envelopes>>
httpVars == <<session, session_id, http_message_id, observed, http_sent, http_last>>
driverVars == <<client, driver, dpc, ncalls>>
benchVars == <<bpc, init_resp, op_index, errors>>
mainVars == <<stage, step, attempt, server_works, attempted, failed, printed>>
concVars == <<gpc, wpc, worker_latencies, worker_errors, all_latencies, total_errors>>
calcVars == <<tool, args, result, catalogue, origin>>
pollVars == <<port_taken, probes, poll_outcome, terminate_sent>>
idVars == <<total_operations, concurrency, worker_id, worker_posts, request_ids, nposted>>
runVars == <<benchVars, mainVars, concVars, calcVars, pollVars, idVars>>
histVars == <<wire, nread, nreturned, nmalformed>>
vars == <<driverVars, stdioVars, httpVars, runVars, histVars>>

\* The JSON-RPC methods of the three wrappers.
Method(op) ==
    CASE op = "initialize" -> "initialize"
      [] op = "list_tools" -> "tools/list"
      [] op = "call_tool" -> "tools/call"
      [] OTHER -> op

Methods == {"initialize", "tools/list", "tools/call"}
Wrappers == {"initialize", "list_tools", "call_tool"}
Ops == Wrappers \cup {"send_message"}

NoCall == [op |-> "none", id |-> NoId]
NoLast == [op |-> "none", id |-> NoId, outcome |-> "none", resp |-> NoResp,
           value |-> "none"]

\* ------------------------------------------------------- the demo functions

\* What a demonstration function does next: start, initialize, one call_tool
\* per entry of its list, and stop in its finally block.
DemoNext ==
    CASE dpc = "start" -> "start"
      [] dpc = "initialize" -> "initialize"
      [] dpc = "calls" -> IF ncalls < MaxCalls THEN "call_tool" ELSE "stop"
      [] dpc = "stop" -> "stop"
      [] OTHER -> "nothing"

\* Where a demonstration function goes when a call of op ended with outcome:
\* a failed start or initialize leaves the try block, a failed call_tool is
\* printed inside the loop and the loop goes on.
DemoAfter(op, outcome) ==
    CASE op = "start" -> IF outcome = "returned" THEN "initialize" ELSE "stop"
      [] op = "initialize" -> IF outcome = "returned" THEN "calls" ELSE "stop"
      [] op = "call_tool" -> "calls"
      [] op = "stop" -> "done"
      [] OTHER -> dpc

\* The caller may make this call now.
Allowed(op) == driver = "free" \/ (driver = "demo" /\ DemoNext = op)

\* The number of calls the caller of the stdio client makes at most.
CallBound == IF driver = "demo" THEN MaxCalls ELSE MaxFreeCalls

\* A wrong started check: it never fires.
NotStartedNever(handle) == FALSE

\* if not self.process / if not self.session: the client was not started.
NotStarted(handle) == handle = None

\* A call of op ends: the result is recorded and the caller moves on.
Finish(op, id, outcome, resp, value) ==
    /\ pc' = "idle"
    /\ cur' = NoCall
    /\ last' = [op |-> op, id |-> id, outcome |-> outcome, resp |-> resp,
                value |-> value]
    /\ dpc' = IF driver = "demo" THEN DemoAfter(op, outcome) ELSE dpc

\* -------------------------------------------------------- the stdio client

\* A wrong write: the line goes out twice.
WriteLineTwice(pipe, msg) == Append(Append(pipe, msg), msg)

\* stdin.write(line) and drain(): one line is added to what the pipe holds.
WriteLine(pipe, msg) == Append(pipe, msg)

\* A wrong _next_id: the increment is lost.
NextIdNoIncrement(mid) == mid

\* _next_id: the counter goes up by one and the new value is the id.
NextId(mid) == mid + 1

\* start(): the subprocess is created and, two seconds later, checked. The
\* command may not be found (process stays None); the server may have exited
\* by then (self.process is set all the same).
Start ==
    /\ client = "stdio" /\ pc = "idle" /\ Allowed("start")
    /\ process = None
    /\ \E found \in BOOLEAN, up \in BOOLEAN :
          /\ process' = IF found THEN "proc" ELSE None
          /\ alive' = (found /\ up)
          /\ returncode' = IF found /\ ~up THEN "exit" ELSE None
          /\ Finish("start", NoId,
                    IF found /\ returncode' = None THEN "returned"
                    ELSE "StartFailed", NoResp, "none")
    /\ UNCHANGED <<message_id, stdin, stdout, envelopes, client, driver, ncalls, httpVars, runVars, histVars>>

\* stop(): terminate, wait up to five seconds, kill and wait. Nothing happens
\* on a client that has no process. self.process is left as it is.
Stop ==
    /\ client = "stdio" /\ pc = "idle" /\ Allowed("stop")
    /\ IF process # None
       THEN /\ alive' = FALSE
            /\ returncode' = "exit"
            /\ stdin' = <<>>
       ELSE UNCHANGED <<alive, returncode, stdin>>
    /\ Finish("stop", NoId, "returned", NoResp, "none")
    /\ UNCHANGED <<process, message_id, stdout, envelopes, client, driver, ncalls, httpVars, runVars, histVars>>

\* send_message up to its readline: the started check, the envelope with the
\* next id, the write and the drain. A write to the pipe of a process that
\* has exited raises BrokenPipeError or ConnectionResetError out of drain;
\* nothing in send_message catches it.
Call(op, method) ==
    /\ client = "stdio" /\ pc = "idle" /\ Allowed(op)
    /\ ncalls < CallBound
    /\ ncalls' = ncalls + 1
    /\ IF NotStarted(process)
       THEN /\ Finish(op, NoId, "NotStarted", NoResp, "none")
            /\ UNCHANGED <<message_id, envelopes, stdin, wire>>
       ELSE LET id == NextId(message_id) IN
            /\ message_id' = id
            /\ envelopes' = Append(envelopes, [id |-> id, method |-> method])
            /\ IF alive
               THEN /\ stdin' = WriteLine(stdin, [id |-> id, method |-> method])
                    /\ wire' = WriteLine(wire, [id |-> id, method |-> method])
                    /\ pc' = "await_line"
                    /\ cur' = [op |-> op, id |-> id]
                    /\ UNCHANGED <<last, dpc>>
               ELSE /\ Finish(op, id, "PipeError", NoResp, "none")
                    /\ UNCHANGED <<stdin, wire>>
    /\ UNCHANGED <<process, alive, returncode, stdout, client, driver, httpVars,
                   runVars, nread, nreturned, nmalformed>>

\* initialize, list_tools and call_tool after send_message gave them resp:
\* a non-null error raises; initialize then writes the notification (pipeOk:
\* the write went through); the result is looked up last.
WrapOutcome(op, resp, pipeOk) ==
    IF op = "send_message" THEN "returned"
    ELSE IF GetError(resp) # None THEN "InvocationError"
    ELSE IF op = "initialize" /\ ~pipeOk THEN "PipeError"
    ELSE IF resp.result = "absent" THEN "KeyError"
    ELSE "returned"

\* What the call hands to its caller with that outcome.
WrapValue(op, resp, outcome) ==
    CASE outcome = "InvocationError" -> resp.error
      [] outcome = "returned" /\ op = "send_message" -> "response"
      [] outcome = "returned" /\ op = "list_tools" -> "tools"
      [] outcome = "returned" -> resp.result
      [] OTHER -> "none"

\* The stdio initialize() sends notifications/initialized after a response
\* without an error.
WritesNotification(op, resp) == op = "initialize" /\ GetError(resp) = None

Notification == [id |-> NoId, method |-> "notifications/initialized"]

\* readline returned a line: it is parsed, and a wrapper looks at the error.
ReadLine ==
    /\ client = "stdio" /\ pc = "await_line"
    /\ stdout # <<>>
    /\ stdout' = Tail(stdout)
    /\ nread' = nread + 1
    /\ LET line == Head(stdout) IN
       IF ~line.json
       THEN /\ Finish(cur.op, cur.id, "MalformedResponse", NoResp, "none")
            /\ nmalformed' = nmalformed + 1
            /\ UNCHANGED <<stdin, wire, nreturned>>
       ELSE LET out == WrapOutcome(cur.op, line, alive) IN
            /\ nreturned' = nreturned + 1
            /\ UNCHANGED nmalformed
            /\ stdin' = IF WritesNotification(cur.op, line) /\ alive
                        THEN Append(stdin, Notification) ELSE stdin
            /\ wire' = IF WritesNotification(cur.op, line) /\ alive
                       THEN Append(wire, Notification) ELSE wire
            /\ Finish(cur.op, cur.id, out, line, WrapValue(cur.op, line, out))
    /\ UNCHANGED <<process, message_id, alive, returncode, envelopes, client,
                   driver, ncalls, httpVars, runVars>>

\* No line within 15 seconds: the process is looked at.
Timeout ==
    /\ client = "stdio" /\ pc = "await_line"
    /\ stdout = <<>> /\ alive
    /\ Finish(cur.op, cur.id,
              IF returncode # None THEN "ProcessTerminated" ELSE "Timeout",
              NoResp, "none")
    /\ UNCHANGED <<process, message_id, alive, returncode, stdin, stdout,
                   envelopes, client, driver, ncalls, httpVars, runVars, histVars>>

\* readline returned the empty bytes of end of file: the process is looked at.
EndOfFile ==
    /\ client = "stdio" /\ pc = "await_line"
    /\ stdout = <<>> /\ ~alive
    /\ Finish(cur.op, cur.id,
              IF returncode # None THEN "ProcessTerminated" ELSE "NoResponse",
              NoResp, "none")
    /\ UNCHANGED <<process, message_id, alive, returncode, stdin, stdout,
                   envelopes, client, driver, ncalls, httpVars, runVars, histVars>>

\* ------------------------------------------------- the server, as environment

\* The lines a server may write in answer to the request with this id.
ResponsesTo(id) ==
    {[json |-> TRUE, id |-> id, result |-> r, error |-> e] :
        r \in ResultVals, e \in ErrorVals} \cup {Garbage}

\* The server reads the next line of its stdin; a request gets one line of
\* answer carrying its id, a notification gets none.
ServerRespond ==
    /\ client = "stdio" /\ alive /\ stdin # <<>>
    /\ stdin' = Tail(stdin)
    /\ IF Head(stdin).id = NoId
       THEN UNCHANGED stdout
       ELSE \E line \in ResponsesTo(Head(stdin).id) : stdout' = Append(stdout, line)
    /\ UNCHANGED <<process, message_id, alive, returncode, pc, cur, last,
                   envelopes, driverVars, httpVars, runVars, histVars>>

\* The server process exits on its own; what it had not read is lost.
ServerExit ==
    /\ client = "stdio" /\ alive
    /\ alive' = FALSE
    /\ stdin' = <<>>
    /\ UNCHANGED <<process, message_id, returncode, stdout, pc, cur, last,
                   envelopes, driverVars, httpVars, runVars, histVars>>

\* asyncio's child watcher notices the exit and sets returncode.
Reap ==
    /\ client = "stdio" /\ process # None /\ ~alive /\ returncode = None
    /\ returncode' = "exit"
    /\ UNCHANGED <<process, message_id, alive, stdin, stdout, pc, cur, last,
                   envelopes, driverVars, httpVars, runVars, histVars>>

\* --------------------------------------------------------- the HTTP client

\* _next_id of the HTTP client: the same counter discipline.
HttpNextId(mid) == mid + 1

\* The values of the mcp-session-id response header: not there, empty, set.
HeaderVals == {"absent", "", "s1", "s2"}

\* What session.post and response.json() can raise, with the classes each
\* exception is an instance of (httpx: TimeoutException is a TransportError,
\* which is a RequestError; a JSON decoding error is a ValueError).
Bases(exc) ==
    CASE exc = "ReadTimeout" ->
            {"ReadTimeout", "TimeoutException", "TransportError", "RequestError"}
      [] exc = "ConnectError" ->
            {"ConnectError", "NetworkError", "TransportError", "RequestError"}
      [] exc = "JSONDecodeError" -> {"JSONDecodeError", "ValueError"}
      [] OTHER -> {exc}

\* The except clauses of send_message, in the order they are written.
ExceptClauses ==
    << [class |-> "RequestError", outcome |-> "TransportError"],
       [class |-> "TimeoutException", outcome |-> "Timeout"] >>

\* try/except: the first clause whose class the exception is an instance of
\* handles it; an exception no clause names leaves send_message as it is.
Handle(exc) ==
    LET hits == {i \in DOMAIN ExceptClauses : ExceptClauses[i].class \in Bases(exc)} IN
    IF hits = {} THEN exc
    ELSE ExceptClauses[CHOOSE i \in hits : \A j \in hits : i <= j].outcome

\* A wrong header choice: the session id is never attached.
SessionHeaderNever(sid) == "absent"

\* The headers send_message puts on its POST: the session id when it is set
\* and not empty.
SessionHeader(sid) == IF sid # None /\ sid # "" THEN sid ELSE "absent"

\* initialize, list_tools and call_tool of the HTTP client after send_message
\* gave them resp.
HttpWrapOutcome(op, resp) ==
    IF op = "send_message" THEN "returned"
    ELSE IF GetError(resp) # None THEN "InvocationError"
    ELSE IF resp.result = "absent" THEN "KeyError"
    ELSE "returned"

NoHttpLast == [op |-> "none", id |-> NoId, outcome |-> "none", raised |-> "none",
               resp |-> NoResp, value |-> "none"]

HttpFinish(op, id, outcome, raised, resp, value) ==
    http_last' = [op |-> op, id |-> id, outcome |-> outcome, raised |-> raised,
                  resp |-> resp, value |-> value]

\* start(): a new AsyncClient.
HttpStart ==
    /\ client = "http"
    /\ session # "open"
    /\ session' = "open"
    /\ HttpFinish("start", NoId, "returned", "none", NoResp, "none")
    /\ UNCHANGED <<session_id, http_message_id, observed, http_sent, driverVars,
                   stdioVars, runVars, histVars>>

\* stop(): the AsyncClient is closed; self.session and self.session_id stay.
HttpStop ==
    /\ client = "http"
    /\ session = "open"
    /\ session' = "closed"
    /\ HttpFinish("stop", NoId, "returned", "none", NoResp, "none")
    /\ UNCHANGED <<session_id, http_message_id, observed, http_sent, driverVars,
                   stdioVars, runVars, histVars>>

\* send_message, and the wrapper around it: the started check, the envelope,
\* the headers, the POST, the session header of the response, the body.
HttpCall(op, method) ==
    /\ client = "http" /\ ncalls < MaxHttpCalls
    /\ ncalls' = ncalls + 1
    /\ IF NotStarted(session)
       THEN /\ HttpFinish(op, NoId, "NotStarted", "none", NoResp, "none")
            /\ UNCHANGED <<session_id, http_message_id, observed, http_sent, envelopes>>
       ELSE LET id == HttpNextId(http_message_id) IN
            /\ http_message_id' = id
            /\ envelopes' = Append(envelopes, [id |-> id, method |-> method])
            /\ IF session = "closed"
               THEN \* httpx refuses to send on a closed client (a RuntimeError)
                    /\ HttpFinish(op, id, Handle("ClosedClient"), "ClosedClient",
                                  NoResp, "none")
                    /\ UNCHANGED <<session_id, observed, http_sent>>
               ELSE /\ http_sent' = Append(http_sent,
                          [verb |-> "POST /mcp", id |-> id,
                           header |-> SessionHeader(session_id),
                           observed |-> observed])
                    /\ \/ \E exc \in {"ReadTimeout", "ConnectError"} :
                            /\ HttpFinish(op, id, Handle(exc), exc, NoResp, "none")
                            /\ UNCHANGED <<session_id, observed>>
                       \/ \E hdr \in HeaderVals, body \in ResponsesTo(id) :
                            /\ session_id' = IF hdr # "absent" THEN hdr ELSE session_id
                            /\ observed' = IF hdr # "absent" THEN hdr ELSE observed
                            /\ IF ~body.json
                               THEN HttpFinish(op, id, Handle("JSONDecodeError"),
                                               "JSONDecodeError", NoResp, "none")
                               ELSE LET out == HttpWrapOutcome(op, body) IN
                                    HttpFinish(op, id, out, "none", body,
                                               WrapValue(op, body, out))
    /\ UNCHANGED <<session, client, driver, dpc, process, message_id, alive,
                   returncode, stdin, stdout, pc, cur, last, runVars, histVars>>

\* get_server_info and get_health: a GET without any header of the client's;
\* whatever goes wrong is raised as the client's error.
HttpGet(path) ==
    /\ client = "http" /\ ncalls < MaxHttpCalls
    /\ ncalls' = ncalls + 1
    /\ IF session # "open"
       THEN /\ HttpFinish(path, NoId, "GetFailed", "none", NoResp, "none")
            /\ UNCHANGED http_sent
       ELSE /\ http_sent' = Append(http_sent,
                  [verb |-> path, id |-> NoId, header |-> "absent",
                   observed |-> observed])
            /\ \E ok \in BOOLEAN :
                  HttpFinish(path, NoId, IF ok THEN "returned" ELSE "GetFailed",
                             "none", NoResp, "none")
    /\ UNCHANGED <<session, session_id, http_message_id, observed, client, driver,
                   dpc, stdioVars, runVars, histVars>>

\* ---------------------------------------------------------- specification

\* No benchmark is running.
NoBenchmark ==
    /\ bpc = "none"
    /\ init_resp = NoResp
    /\ op_index = 0
    /\ errors = 0

\* No main() is running.
NoMain ==
    /\ stage = "none"
    /\ step = 0
    /\ attempt = 0
    /\ server_works = None
    /\ attempted = {}
    /\ failed = {}
    /\ printed = {}

\* Both clients as their constructors leave them, and nothing on the pipes.
ClientInit ==
    /\ dpc = "start"
    /\ ncalls = 0
    /\ process = None
    /\ message_id = 0
    /\ alive = FALSE
    /\ returncode = None
    /\ stdin = <<>>
    /\ stdout = <<>>
    /\ pc = "idle"
    /\ cur = NoCall
    /\ last = NoLast
    /\ envelopes = <<>>
    /\ session = None
    /\ session_id = None
    /\ http_message_id = 0
    /\ observed = "absent"
    /\ http_sent = <<>>
    /\ http_last = NoHttpLast
    /\ wire = <<>>
    /\ nread = 0
    /\ nreturned = 0
    /\ nmalformed = 0

\* No readiness poll has begun.
NoPoll ==
    /\ probes = 0
    /\ poll_outcome = "none"
    /\ terminate_sent = FALSE

\* No request ids are being followed.
NoRequestIds ==
    /\ total_operations = 0
    /\ concurrency = 0
    /\ worker_id = 0
    /\ worker_posts = 0
    /\ request_ids = {}
    /\ nposted = 0

\* No calculation tool has been called.
NoCalculation ==
    /\ tool = "none"
    /\ args = <<>>
    /\ result = <<>>
    /\ catalogue = <<>>
    /\ origin = {}

\* No concurrent benchmark is running.
NoWorkers ==
    /\ gpc = "none"
    /\ wpc = <<>>
    /\ worker_latencies = <<>>
    /\ worker_errors = <<>>
    /\ all_latencies = <<>>
    /\ total_errors = 0

Init ==
    /\ client \in {"stdio", "http"}
    /\ driver \in {"free", "demo"}
    /\ client = "http" => driver = "free"
    /\ ClientInit
    /\ NoBenchmark
    /\ NoMain
    /\ NoWorkers
    /\ NoCalculation
    /\ NoPoll
    /\ NoRequestIds
    /\ port_taken = FALSE

Next ==
    \/ Start
    \/ Stop
    \/ \E op \in Wrappers : Call(op, Method(op))
    \/ \E method \in Methods : Call("send_message", method)
    \/ ReadLine
    \/ Timeout
    \/ EndOfFile
    \/ ServerRespond
    \/ ServerExit
    \/ Reap
    \/ HttpStart
    \/ HttpStop
    \/ \E op \in Wrappers : HttpCall(op, Method(op))
    \/ \E method \in Methods : HttpCall("send_message", method)
    \/ \E path \in {"GET /", "GET /health"} : HttpGet(path)

Spec == Init /\ [][Next]_vars

\* ------------------------------------------ benchmark_stdio_single_threaded

\* Number of operations of the benchmark loop (main() asks for 50).
Operations == 2

\* int(time.time() * 1000000): the ids _send_message gives its envelopes.
\* Nothing keeps two readings of the clock apart.
Timestamps == {1, 2}

\* _send_message raised. Around the initialize request there is no handler:
\* the exception leaves the benchmark. Inside the loop it is counted and the
\* loop goes on.
SendFailed ==
    IF bpc \in {"initialize", "await_initialize"}
    THEN /\ bpc' = "raised"
         /\ UNCHANGED <<init_resp, op_index, errors>>
    ELSE /\ bpc' = "loop"
         /\ op_index' = op_index + 1
         /\ errors' = errors + 1
         /\ UNCHANGED init_resp

\* _send_message returned the parsed line. The benchmark does not look at it.
SendReturned(line) ==
    IF bpc = "await_initialize"
    THEN /\ bpc' = "notify"
         /\ init_resp' = line
         /\ UNCHANGED <<op_index, errors>>
    ELSE /\ bpc' = "loop"
         /\ op_index' = op_index + 1
         /\ UNCHANGED <<init_resp, errors>>

\* What the benchmark leaves alone.
BenchFrame == UNCHANGED <<driverVars, message_id, pc, cur, last, httpVars, mainVars,
                          concVars, calcVars, pollVars, idVars>>

\* The subprocess is created and, two seconds later, checked.
BenchCreate ==
    /\ driver = "bench" /\ bpc = "create"
    /\ \E found \in BOOLEAN, up \in BOOLEAN :
          /\ process' = IF found THEN "proc" ELSE None
          /\ alive' = (found /\ up)
          /\ returncode' = IF found /\ ~up THEN "exit" ELSE None
          /\ bpc' = IF found /\ up THEN "initialize" ELSE "raised"
    /\ UNCHANGED <<init_resp, op_index, errors, stdin, stdout, envelopes>>
    /\ UNCHANGED histVars
    /\ BenchFrame

\* _send_message up to its readline: the envelope, the write and the drain;
\* first for initialize, then once per loop iteration for tools/call.
BenchSend ==
    /\ driver = "bench"
    /\ bpc = "initialize" \/ (bpc = "loop" /\ op_index < Operations)
    /\ \E id \in Timestamps :
          LET m == [id |-> id,
                    method |-> IF bpc = "initialize" THEN "initialize"
                               ELSE "tools/call"] IN
          /\ envelopes' = Append(envelopes, m)
          /\ IF alive
             THEN /\ stdin' = Append(stdin, m)
                  /\ wire' = Append(wire, m)
                  /\ bpc' = IF bpc = "initialize" THEN "await_initialize"
                            ELSE "await_op"
                  /\ UNCHANGED <<init_resp, op_index, errors>>
             ELSE /\ SendFailed
                  /\ UNCHANGED <<stdin, wire>>
    /\ UNCHANGED <<process, alive, returncode, stdout, nread, nreturned, nmalformed>>
    /\ BenchFrame

\* readline returned a line: json.loads parses it or raises.
BenchReadLine ==
    /\ driver = "bench" /\ bpc \in {"await_initialize", "await_op"}
    /\ stdout # <<>>
    /\ stdout' = Tail(stdout)
    /\ nread' = nread + 1
    /\ nreturned' = IF Head(stdout).json THEN nreturned + 1 ELSE nreturned
    /\ nmalformed' = IF Head(stdout).json THEN nmalformed ELSE nmalformed + 1
    /\ IF Head(stdout).json THEN SendReturned(Head(stdout)) ELSE SendFailed
    /\ UNCHANGED <<process, alive, returncode, stdin, envelopes, wire>>
    /\ BenchFrame

\* No line within 10 seconds: wait_for raises TimeoutError.
BenchTimeout ==
    /\ driver = "bench" /\ bpc \in {"await_initialize", "await_op"}
    /\ stdout = <<>> /\ alive
    /\ SendFailed
    /\ UNCHANGED <<process, alive, returncode, stdin, stdout, envelopes>>
    /\ UNCHANGED histVars
    /\ BenchFrame

\* readline returned the empty bytes of end of file: RuntimeError.
BenchEndOfFile ==
    /\ driver = "bench" /\ bpc \in {"await_initialize", "await_op"}
    /\ stdout = <<>> /\ ~alive
    /\ SendFailed
    /\ UNCHANGED <<process, alive, returncode, stdin, stdout, envelopes>>
    /\ UNCHANGED histVars
    /\ BenchFrame

\* The initialized notification is written, whatever initialize's answer was.
BenchNotify ==
    /\ driver = "bench" /\ bpc = "notify"
    /\ IF alive
       THEN /\ stdin' = Append(stdin, Notification)
            /\ wire' = Append(wire, Notification)
            /\ bpc' = "monitor"
       ELSE /\ bpc' = "raised"
            /\ UNCHANGED <<stdin, wire>>
    /\ UNCHANGED <<init_resp, op_index, errors, process, alive, returncode,
                   stdout, envelopes, nread, nreturned, nmalformed>>
    /\ BenchFrame

\* psutil.Process(pid) raises when no process has that pid any more.
BenchMonitor ==
    /\ driver = "bench" /\ bpc = "monitor"
    /\ bpc' = IF ~alive /\ returncode # None THEN "raised" ELSE "loop"
    /\ UNCHANGED <<init_resp, op_index, errors, process, alive, returncode,
                   stdin, stdout, envelopes>>
    /\ UNCHANGED histVars
    /\ BenchFrame

\* After the loop: memory_info() and cpu_percent() raise for a process that
\* has exited.
BenchMeasure ==
    /\ driver = "bench" /\ bpc = "loop" /\ op_index >= Operations
    /\ bpc' = IF alive THEN "cleanup" ELSE "raised"
    /\ UNCHANGED <<init_resp, op_index, errors, process, alive, returncode,
                   stdin, stdout, envelopes>>
    /\ UNCHANGED histVars
    /\ BenchFrame

\* Cleanup: terminate() and wait(), with no time limit and no kill. A server
\* that does not exit on SIGTERM keeps wait() from ever returning.
BenchCleanup ==
    /\ driver = "bench" /\ bpc = "cleanup"
    /\ IF returncode # None
       THEN \* terminate() on a reaped process raises ProcessLookupError
            /\ bpc' = "raised"
            /\ UNCHANGED <<alive, returncode, stdin>>
       ELSE \E exits \in BOOLEAN :
            IF exits \/ ~alive
            THEN /\ alive' = FALSE
                 /\ returncode' = "exit"
                 /\ stdin' = <<>>
                 /\ bpc' = "statistics"
            ELSE /\ bpc' = "hung"
                 /\ UNCHANGED <<alive, returncode, stdin>>
    /\ UNCHANGED <<init_resp, op_index, errors, process, stdout, envelopes>>
    /\ UNCHANGED histVars
    /\ BenchFrame

\* len(latencies) once the loop is over: every iteration either appended a
\* latency or counted an error.
Latencies == op_index - errors

\* statistics.quantiles(data, n=...): before Python 3.13 it raises
\* StatisticsError for fewer than two data points, from 3.13 on for none.
\* The benchmark runs under whichever python3 is installed.
MinimumDataPoints == {1, 2}

\* ... if latencies else 0: the guard of every statistic of the result.
Guarded(count) == count = 0

\* (operations - errors) / operations * 100, in whole percents.
SuccessRate == ((Operations - errors) * 100) \div Operations

\* return BenchmarkResult(...): the statistics are computed only now, after
\* the cleanup. quantiles is called for every non-empty list of latencies.
BenchResult ==
    /\ driver = "bench" /\ bpc = "statistics"
    /\ \E minimum \in MinimumDataPoints :
          bpc' = IF ~Guarded(Latencies) /\ Latencies < minimum
                 THEN "StatisticsError"
                 ELSE "returned"
    /\ UNCHANGED <<init_resp, op_index, errors, process, alive, returncode,
                   stdin, stdout, envelopes>>
    /\ UNCHANGED histVars
    /\ BenchFrame

\* main() of the benchmark: the exception is printed; the finally block stops
\* self.server_process, the HTTP server, which no benchmark has started yet.
BenchMainHandlers ==
    /\ driver = "bench" /\ bpc \in {"raised", "StatisticsError"}
    /\ bpc' = "ended"
    /\ UNCHANGED <<init_resp, op_index, errors, process, alive, returncode,
                   stdin, stdout, envelopes>>
    /\ UNCHANGED histVars
    /\ BenchFrame

\* The subprocess transport nobody closed is finalized at some point of the
\* garbage collector's choosing, or never: its finalizer kills the child.
Finalize ==
    /\ driver = "bench" /\ bpc \in {"raised", "ended"}
    /\ alive
    /\ alive' = FALSE
    /\ stdin' = <<>>
    /\ UNCHANGED <<bpc, init_resp, op_index, errors, process, returncode,
                   stdout, envelopes>>
    /\ UNCHANGED histVars
    /\ BenchFrame

BenchInit ==
    /\ client = "stdio"
    /\ driver = "bench"
    /\ ClientInit
    /\ bpc = "create"
    /\ init_resp = NoResp
    /\ op_index = 0
    /\ errors = 0
    /\ NoMain
    /\ NoWorkers
    /\ NoCalculation
    /\ NoPoll
    /\ NoRequestIds
    /\ port_taken = FALSE

BenchNext ==
    \/ BenchCreate
    \/ BenchSend
    \/ BenchReadLine
    \/ BenchTimeout
    \/ BenchEndOfFile
    \/ BenchNotify
    \/ BenchMonitor
    \/ BenchMeasure
    \/ BenchCleanup
    \/ BenchResult
    \/ BenchMainHandlers
    \/ Finalize
    \/ ServerRespond
    \/ ServerExit
    \/ Reap

SpecBench == BenchInit /\ [][BenchNext]_vars

\* ------------------------------------------------------------ the demo mains

\* Number of tool calls in the lists of a demonstration function (6 to 14).
MaxToolCalls == 2

\* max_attempts of the readiness poll (30).
MaxAttempts == 2

\* The demonstration functions main() calls after the connectivity check.
Demonstrations == <<"temperature", "indices", "advanced">>

\* The functions of main() that use a client, in call order.
Stages == <<"connectivity">> \o Demonstrations

\* A wrong loop body: the first failed tool call ends the demonstration.
ToolCallAborts(s) == "abort"

\* What a failed call_tool does to its function: the connectivity check
\* returns False, a demonstration prints the failure inside its loop and
\* goes on with the next entry of the list.
ToolCallPolicy(s) == IF s = "connectivity" THEN "abort" ELSE "continue"

\* One awaited call of a function, and what its failure does to the function.
St(op, onfail) == [op |-> op, onfail |-> onfail]

\* The calls of a function before its tool calls.
Prologue(c, s) ==
    CASE c = "stdio" /\ s = "connectivity" ->
            <<St("start", "abort"), St("initialize", "abort"),
              St("list_tools", "abort")>>
      [] c = "http" /\ s = "connectivity" ->
            <<St("start", "abort"), St("get_server_info", "abort"),
              St("get_health", "continue"), St("initialize", "abort"),
              St("list_tools", "abort")>>
      [] c = "http" /\ s = "temperature" ->
            <<St("start", "abort"), St("initialize", "abort"),
              St("get_server_info", "continue"), St("list_tools", "abort")>>
      [] c = "http" /\ s = "indices" ->
            <<St("start", "abort"), St("initialize", "abort"),
              St("get_health", "continue")>>
      [] OTHER ->
            <<St("start", "abort"), St("initialize", "abort")>>

\* The tool calls of a function: one in the connectivity check, the entries
\* of the lists in a demonstration.
ToolCalls(s) ==
    [i \in 1..(IF s = "connectivity" THEN 1 ELSE MaxToolCalls) |->
        St("call_tool", ToolCallPolicy(s))]

\* Every awaited call of the function s of the main of client c, in order.
StepsOf(c, s) == Prologue(c, s) \o ToolCalls(s)

\* The function s left its try block early: a call whose failure ends the
\* function has failed.
Aborted(s) ==
    \E i \in DOMAIN StepsOf(client, s) :
        <<s, i>> \in failed /\ StepsOf(client, s)[i].onfail = "abort"

\* Where main() goes when its try block is left.
AfterBody == IF client = "http" THEN "cleanup" ELSE "end"

\* The function main() calls after the demonstration s.
NextStage(s) ==
    CASE s = "temperature" -> "indices"
      [] s = "indices" -> "advanced"
      [] OTHER -> AfterBody

\* What the mains leave alone.
PollFrame == UNCHANGED <<driverVars, message_id, returncode, stdin, stdout, pc,
                         cur, last, envelopes, httpVars, benchVars, histVars,
                         concVars, calcVars, idVars, port_taken>>

\* What the functions of main() after the poll leave alone.
MainFrame == PollFrame /\ UNCHANGED <<probes, poll_outcome, terminate_sent>>

\* GET /health can be answered with status 200 when the subprocess runs or
\* when another server holds the port.
HealthAnswers == alive \/ port_taken

\* The HTTP main: subprocess.Popen of the server command.
Launch ==
    /\ driver = "main" /\ stage = "launch"
    /\ \E found \in BOOLEAN :
          IF found
          THEN /\ alive' = TRUE
               /\ stage' = "poll"
               /\ UNCHANGED <<failed, printed>>
          ELSE /\ stage' = "cleanup"
               /\ failed' = failed \cup {<<"launch", 1>>}
               /\ printed' = printed \cup {<<"launch", 1>>}
               /\ UNCHANGED alive
    /\ UNCHANGED <<process, step, attempt, server_works, attempted>>
    /\ MainFrame

\* One round of the readiness poll: GET /health; on 200 the process is handed
\* to main() without being looked at; otherwise the process is looked at and
\* the poll sleeps a second.
Poll ==
    /\ driver = "main" /\ stage = "poll" /\ attempt < MaxAttempts
    /\ probes' = probes + 1
    /\ \E status200 \in BOOLEAN :
          /\ status200 => HealthAnswers
          /\ IF status200
             THEN /\ process' = "proc"
                  /\ stage' = "connectivity"
                  /\ poll_outcome' = "ready"
                  /\ UNCHANGED <<attempt, failed, printed>>
             ELSE IF ~alive
             THEN /\ stage' = "cleanup"
                  /\ poll_outcome' = "exited"
                  /\ failed' = failed \cup {<<"poll", 1>>}
                  /\ printed' = printed \cup {<<"poll", 1>>}
                  /\ UNCHANGED <<process, attempt>>
             ELSE /\ attempt' = attempt + 1
                  /\ UNCHANGED <<process, stage, failed, printed, poll_outcome>>
    /\ UNCHANGED <<alive, step, server_works, attempted, terminate_sent>>
    /\ PollFrame

\* The poll ran out of attempts: terminate() and raise. Nobody waits for the
\* process, nobody kills it, and main() never gets to hold it.
PollExhausted ==
    /\ driver = "main" /\ stage = "poll" /\ attempt = MaxAttempts
    /\ \E exits \in BOOLEAN : alive' = (alive /\ ~exits)
    /\ terminate_sent' = TRUE
    /\ poll_outcome' = "not ready"
    /\ stage' = "cleanup"
    /\ failed' = failed \cup {<<"poll", 1>>}
    /\ printed' = printed \cup {<<"poll", 1>>}
    /\ UNCHANGED <<process, step, attempt, server_works, attempted, probes>>
    /\ PollFrame

\* The HTTP server process exits on its own.
HttpServerExit ==
    /\ driver \in {"main", "concurrent"} /\ client = "http" /\ alive
    /\ alive' = FALSE
    /\ UNCHANGED <<process, mainVars>>
    /\ MainFrame

\* One awaited call of the current function: it returns, or it raises and
\* the failure is printed by the handler the call stands in.
Step ==
    /\ driver = "main" /\ stage \in {Stages[k] : k \in DOMAIN Stages}
    /\ step <= Len(StepsOf(client, stage))
    /\ attempted' = attempted \cup {<<stage, step>>}
    /\ \E ok \in BOOLEAN :
          IF ok
          THEN /\ step' = step + 1
               /\ UNCHANGED <<failed, printed>>
          ELSE /\ failed' = failed \cup {<<stage, step>>}
               /\ printed' = printed \cup {<<stage, step>>}
               /\ step' = IF StepsOf(client, stage)[step].onfail = "abort"
                          THEN Len(StepsOf(client, stage)) + 1
                          ELSE step + 1
    /\ UNCHANGED <<process, alive, stage, attempt, server_works>>
    /\ MainFrame

\* The function is over: its finally block stops the client, and main()
\* goes on. The demonstrations are called only when the connectivity check
\* returned True.
StageEnd ==
    /\ driver = "main" /\ stage \in {Stages[k] : k \in DOMAIN Stages}
    /\ step = Len(StepsOf(client, stage)) + 1
    /\ step' = 1
    /\ IF stage = "connectivity"
       THEN /\ server_works' = IF Aborted(stage) THEN "False" ELSE "True"
            /\ stage' = IF ~Aborted(stage) THEN Demonstrations[1] ELSE AfterBody
       ELSE /\ stage' = NextStage(stage)
            /\ UNCHANGED server_works
    /\ UNCHANGED <<process, alive, attempt, attempted, failed, printed>>
    /\ MainFrame

\* The finally block of the HTTP main: a server process main() holds is
\* terminated, waited for five seconds, killed and waited for.
MainFinally ==
    /\ driver = "main" /\ stage = "cleanup"
    /\ stage' = "end"
    /\ alive' = IF process # None THEN FALSE ELSE alive
    /\ terminate_sent' = (terminate_sent \/ process # None)
    /\ UNCHANGED <<process, step, attempt, server_works, attempted, failed, printed,
                   probes, poll_outcome>>
    /\ PollFrame

MainInit ==
    /\ client \in {"stdio", "http"}
    /\ driver = "main"
    /\ ClientInit
    /\ NoBenchmark
    /\ NoWorkers
    /\ NoCalculation
    /\ NoPoll
    /\ NoRequestIds
    /\ port_taken \in (IF client = "http" THEN BOOLEAN ELSE {FALSE})
    /\ stage = IF client = "http" THEN "launch" ELSE "connectivity"
    /\ step = 1
    /\ attempt = 0
    /\ server_works = None
    /\ attempted = {}
    /\ failed = {}
    /\ printed = {}

MainNext ==
    \/ Launch
    \/ Poll
    \/ PollExhausted
    \/ HttpServerExit
    \/ Step
    \/ StageEnd
    \/ MainFinally

SpecMain == MainInit /\ [][MainNext]_vars

\* ------------------------------------------------ benchmark_http_concurrent

\* concurrency: the number of workers (main() asks for 5).
Concurrency == 2

\* total_operations (main() asks for 50).
TotalOperations == 5

\* range(concurrency): the worker ids.
Workers == 0..(Concurrency - 1)

\* operations_per_worker = total_operations // concurrency.
OperationsPerWorker == TotalOperations \div Concurrency

\* A wrong counter update: the sum read before an await is written back
\* after it, and what another worker added in between is lost.
AddErrorsOverwrites(total, n) == n

\* total_errors += worker_errors, with no await between the read and the
\* write.
AddErrors(total, n) == total + n

\* What the concurrent benchmark leaves alone.
ConcFrame == UNCHANGED <<driverVars, stdioVars, httpVars, benchVars, mainVars,
                         histVars, calcVars, pollVars, idVars>>

\* What start_http_server and stop_http_server leave alone.
ServerFrame == UNCHANGED <<driverVars, process, message_id, returncode, stdin, stdout,
                           pc, cur, last, envelopes, httpVars, benchVars, stage, step,
                           server_works, attempted, failed, printed, histVars,
                           calcVars, idVars, port_taken, wpc, worker_latencies,
                           worker_errors, all_latencies, total_errors>>

\* start_http_server(), subprocess.Popen: what it raises is caught, False is
\* returned and the benchmark raises before its try block.
ConcStart ==
    /\ driver = "concurrent" /\ gpc = "start"
    /\ \E found \in BOOLEAN :
          /\ alive' = found
          /\ gpc' = IF found THEN "poll" ELSE "failed"
    /\ UNCHANGED <<attempt, probes, poll_outcome, terminate_sent>>
    /\ ServerFrame

\* start_http_server(), one round of its readiness poll: on 200 it returns
\* True and gather starts the workers; otherwise, when the process has
\* exited, it returns False; otherwise it sleeps a second.
ConcPoll ==
    /\ driver = "concurrent" /\ gpc = "poll" /\ attempt < MaxAttempts
    /\ probes' = probes + 1
    /\ \E status200 \in BOOLEAN :
          /\ status200 => HealthAnswers
          /\ IF status200
             THEN /\ gpc' = "gather"
                  /\ poll_outcome' = "ready"
                  /\ UNCHANGED attempt
             ELSE IF ~alive
             THEN /\ gpc' = "failed"
                  /\ poll_outcome' = "exited"
                  /\ UNCHANGED attempt
             ELSE /\ attempt' = attempt + 1
                  /\ UNCHANGED <<gpc, poll_outcome>>
    /\ UNCHANGED <<alive, terminate_sent>>
    /\ ServerFrame

\* start_http_server(), after the last round: the timeout is printed and
\* False is returned; the process is left as it is.
ConcPollExhausted ==
    /\ driver = "concurrent" /\ gpc = "poll" /\ attempt = MaxAttempts
    /\ gpc' = "failed"
    /\ poll_outcome' = "not ready"
    /\ UNCHANGED <<alive, attempt, probes, terminate_sent>>
    /\ ServerFrame

\* The tasks of gather run until the event loop is closed.
WorkersRun == gpc \in {"gather", "raised", "stopped"}

\* A worker posts its initialize request; nothing in the worker catches what
\* the post raises.
WorkerInitialize(w) ==
    /\ driver = "concurrent" /\ WorkersRun /\ wpc[w] = "initialize"
    /\ \E ok \in BOOLEAN :
          wpc' = [wpc EXCEPT ![w] = IF ok THEN "loop" ELSE "raised"]
    /\ UNCHANGED <<gpc, worker_latencies, worker_errors, all_latencies, total_errors>>
    /\ ConcFrame

\* One iteration of a worker's loop: the post is awaited; status 200 adds a
\* latency to the worker's list, any other status and any exception add one
\* to the worker's counter.
WorkerOperation(w) ==
    /\ driver = "concurrent" /\ WorkersRun /\ wpc[w] = "loop"
    /\ Len(worker_latencies[w]) + worker_errors[w] < OperationsPerWorker
    /\ \E outcome \in {"200", "other status", "exception"} :
          IF outcome = "200"
          THEN /\ worker_latencies' =
                     [worker_latencies EXCEPT ![w] = Append(@, w)]
               /\ UNCHANGED worker_errors
          ELSE /\ worker_errors' = [worker_errors EXCEPT ![w] = @ + 1]
               /\ UNCHANGED worker_latencies
    /\ UNCHANGED <<gpc, wpc, all_latencies, total_errors>>
    /\ ConcFrame

\* The loop is over and the worker's client is closed: the worker adds its
\* list and its counter to the shared ones, in one piece, and is done.
WorkerPublish(w) ==
    /\ driver = "concurrent" /\ WorkersRun /\ wpc[w] = "loop"
    /\ Len(worker_latencies[w]) + worker_errors[w] >= OperationsPerWorker
    /\ all_latencies' = all_latencies \o worker_latencies[w]
    /\ total_errors' = AddErrors(total_errors, worker_errors[w])
    /\ wpc' = [wpc EXCEPT ![w] = "done"]
    /\ UNCHANGED <<gpc, worker_latencies, worker_errors>>
    /\ ConcFrame

\* gather returns when every worker is done.
GatherReturns ==
    /\ driver = "concurrent" /\ gpc = "gather"
    /\ \A w \in Workers : wpc[w] = "done"
    /\ gpc' = "returned"
    /\ UNCHANGED <<wpc, worker_latencies, worker_errors, all_latencies, total_errors>>
    /\ ConcFrame

\* gather raises as soon as one worker has raised; the others run on.
GatherRaises ==
    /\ driver = "concurrent" /\ gpc = "gather"
    /\ \E w \in Workers : wpc[w] = "raised"
    /\ gpc' = "raised"
    /\ UNCHANGED <<wpc, worker_latencies, worker_errors, all_latencies, total_errors>>
    /\ ConcFrame

\* The finally block: stop_http_server().
ConcFinally ==
    /\ driver = "concurrent" /\ gpc \in {"returned", "raised"}
    /\ gpc' = IF gpc = "returned" THEN "result" ELSE "stopped"
    /\ terminate_sent' = TRUE
    /\ alive' = FALSE
    /\ UNCHANGED <<attempt, probes, poll_outcome>>
    /\ ServerFrame

ConcInit ==
    /\ client = "http"
    /\ driver = "concurrent"
    /\ ClientInit
    /\ NoBenchmark
    /\ NoMain
    /\ NoCalculation
    /\ NoPoll
    /\ NoRequestIds
    /\ port_taken \in BOOLEAN
    /\ gpc = "start"
    /\ wpc = [w \in Workers |-> "initialize"]
    /\ worker_latencies = [w \in Workers |-> <<>>]
    /\ worker_errors = [w \in Workers |-> 0]
    /\ all_latencies = <<>>
    /\ total_errors = 0

ConcNext ==
    \/ ConcStart
    \/ ConcPoll
    \/ ConcPollExhausted
    \/ HttpServerExit
    \/ \E w \in Workers : WorkerInitialize(w)
    \/ \E w \in Workers : WorkerOperation(w)
    \/ \E w \in Workers : WorkerPublish(w)
    \/ GatherReturns
    \/ GatherRaises
    \/ ConcFinally

SpecConc == ConcInit /\ [][ConcNext]_vars

\* ------------------------------------------ the ids of the workers' requests
\* The ids a worker puts into its requests depend on worker_id and on the
\* loop variable only, not on how the event loop interleaves the workers:
\* here the requests are followed worker by worker, in the order of the
\* task list.

\* The largest total_operations followed.
MaxTotalOperations == 2000

\* worker_id * 1000: the distance between the ids of two workers.
IdStride == 1000

\* "id": worker_id * 1000, the id of a worker's initialize request.
InitializeId(w) == w * IdStride

\* "id": worker_id * 1000 + i + 1, the id of a worker's i-th tools/call.
OperationId(w, i, per_worker) == w * IdStride + i + 1

\* operations_per_worker = total_operations // concurrency.
PerWorker == total_operations \div concurrency

\* The arguments followed: main()'s 50 among them.
TotalOperationsInputs == {0, TotalOperations, 50, MaxTotalOperations}

IdFrame == UNCHANGED <<driverVars, stdioVars, httpVars, benchVars, mainVars,
                       concVars, histVars, calcVars, pollVars,
                       total_operations, concurrency>>

\* The worker posts its initialize request.
PostInitialize ==
    /\ driver = "tasks" /\ worker_id < concurrency /\ worker_posts = 0
    /\ request_ids' = request_ids \cup {InitializeId(worker_id)}
    /\ nposted' = nposted + 1
    /\ worker_posts' = 1
    /\ UNCHANGED worker_id
    /\ IdFrame

\* One iteration of the worker's loop: i is the number of operations posted
\* before this one.
PostOperation ==
    /\ driver = "tasks" /\ worker_id < concurrency
    /\ worker_posts >= 1 /\ worker_posts - 1 < PerWorker
    /\ request_ids' = request_ids \cup
                         {OperationId(worker_id, worker_posts - 1, PerWorker)}
    /\ nposted' = nposted + 1
    /\ worker_posts' = worker_posts + 1
    /\ UNCHANGED worker_id
    /\ IdFrame

\* range(operations_per_worker) is used up; the next task of the list.
NextWorker ==
    /\ driver = "tasks" /\ worker_id < concurrency
    /\ worker_posts >= 1 /\ worker_posts - 1 >= PerWorker
    /\ worker_id' = worker_id + 1
    /\ worker_posts' = 0
    /\ UNCHANGED <<request_ids, nposted>>
    /\ IdFrame

\* benchmark_http_concurrent is called; concurrency = 0 makes the division
\* raise before any worker exists.
IdInit ==
    /\ client = "http"
    /\ driver = "tasks"
    /\ ClientInit
    /\ NoBenchmark
    /\ NoMain
    /\ NoWorkers
    /\ NoCalculation
    /\ NoPoll
    /\ port_taken = FALSE
    /\ total_operations \in TotalOperationsInputs
    /\ concurrency \in 1..Concurrency
    /\ worker_id = 0
    /\ worker_posts = 0
    /\ request_ids = {}
    /\ nposted = 0

IdNext ==
    \/ PostInitialize
    \/ PostOperation
    \/ NextWorker

SpecIds == IdInit /\ [][IdNext]_vars

\* ------------------------------------------------- the calculation handlers
\* The handlers compute with floats. Here temperatures in degrees Celsius
\* are counted in hundredths of a degree, temperatures in degrees Fahrenheit
\* in thousandths, wind speeds in hundredths of a km/h and in 1e-8 mph,
\* humidity and cloud cover in whole percent, altitudes in whole metres.

\* The magnitude of x.
Abs(x) == IF x < 0 THEN -x ELSE x

\* x / y raises ZeroDivisionError exactly when y is zero.
DivisionFails(y) == y = 0

\* math.log(x) raises ValueError ("math domain error") exactly when x <= 0.
LogFails(x) == x <= 0

\* math.exp(n / d) raises OverflowError ("math range error") when n / d is
\* above 709.78; the whole number 710 stands for that limit here.
ExpFails(n, d) ==
    /\ d # 0
    /\ (n > 0) = (d > 0)
    /\ Abs(n) \div Abs(d) >= 710

\* What a handler hands back when it does not raise: json.dumps of its
\* dictionary, kept as the fields that matter.
Payload(fields) == [raised |-> None, payload |-> fields]

\* A handler left by an exception.
Raised(exc) == [raised |-> exc, payload |-> <<>>]

\* A wrong dew point: the humidity is kept away from the logarithm's pole.
DewPointGuarded(T, RH) == Payload([formula |-> "Magnus"])

\* _calculate_dew_point: alpha = a T / (b + T) + log(RH / 100) with b = 237.7,
\* then b alpha / (a - alpha). The division is evaluated before the
\* logarithm.
DewPoint(T, RH) ==
    IF DivisionFails(23770 + T) THEN Raised("ZeroDivisionError")
    ELSE IF LogFails(RH) THEN Raised("ValueError")
    ELSE Payload([formula |-> "Magnus"])

\* _pressure_altitude_to_sea_level: P exp(g M h / (R T)) with T in kelvin,
\* g M / R = 0.034163.
SeaLevelPressure(P, h, T) ==
    IF DivisionFails(T + 27315) THEN Raised("ZeroDivisionError")
    ELSE IF ExpFails(3416 * h, 1000 * (T + 27315)) THEN Raised("OverflowError")
    ELSE Payload([formula |-> "Barometric"])

\* The constants of the Tetens formula over water and over ice: the factor
\* in thousandths, the offset in hundredths of a degree.
OverWater == [factor |-> 17270, offset |-> 23730]
OverIce == [factor |-> 21875, offset |-> 26550]

\* _saturation_vapor_pressure, the branch: T >= 0.
Phase(T) == IF T >= 0 THEN "water" ELSE "ice"

\* _saturation_vapor_pressure: 6.1078 exp(c T / (T + d)) with the constants
\* of the phase.
SaturationVaporPressure(T) ==
    LET k == IF Phase(T) = "water" THEN OverWater ELSE OverIce IN
    IF DivisionFails(T + k.offset) THEN Raised("ZeroDivisionError")
    ELSE IF ExpFails(k.factor * T, 1000 * (T + k.offset)) THEN Raised("OverflowError")
    ELSE Payload([phase |-> Phase(T), constants |-> k])

\* Temperatures in hundredths of a degree Celsius the handlers are tried on.
TemperaturesC ==
    {-30000, -27315, -27300, -26550, -25000, -23770, -1000, -1, 0, 1, 500,
     2000, 2666, 2667, 3000}

\* Relative humidities in percent.
Humidities == {-5, 0, 1, 12, 13, 50, 85, 86, 100}

\* Station pressures in hectopascal and altitudes in metres.
Pressures == {950, 1000}
Altitudes == {-100, 0, 500, 8000}

\* What the calculation handlers leave alone: everything but the last call.
\* No handler assigns to self, so the catalogue stays as it is.
CalcFrame == UNCHANGED <<driverVars, stdioVars, httpVars, benchVars, mainVars,
                         concVars, histVars, pollVars, idVars, catalogue>>

\* The names in the catalogue.
Registered == {catalogue[i] : i \in DOMAIN catalogue}

\* The server looks a tool up by name when it is called.
Serving(name) == driver = "server" /\ name \in Registered

\* tools/call of calculate_dew_point.
CalculateDewPoint ==
    /\ Serving("calculate_dew_point")
    /\ origin' = {}
    /\ \E T \in TemperaturesC, RH \in Humidities :
          /\ tool' = "calculate_dew_point"
          /\ args' = [temperature_c |-> T, humidity |-> RH]
          /\ result' = DewPoint(T, RH)
    /\ CalcFrame

\* tools/call of pressure_altitude_to_sea_level.
PressureAltitudeToSeaLevel ==
    /\ Serving("pressure_altitude_to_sea_level")
    /\ origin' = {}
    /\ \E P \in Pressures, h \in Altitudes, T \in TemperaturesC :
          /\ tool' = "pressure_altitude_to_sea_level"
          /\ args' = [pressure_hpa |-> P, altitude_m |-> h, temperature_c |-> T]
          /\ result' = SeaLevelPressure(P, h, T)
    /\ CalcFrame

\* tools/call of saturation_vapor_pressure.
CallSaturationVaporPressure ==
    /\ Serving("saturation_vapor_pressure")
    /\ origin' = {}
    /\ \E T \in TemperaturesC :
          /\ tool' = "saturation_vapor_pressure"
          /\ args' = [temperature_c |-> T]
          /\ result' = SaturationVaporPressure(T)
    /\ CalcFrame

\* A wrong rounding: the value is passed on as it is.
Round1Identity(x) == x

\* round(x, 1) on a temperature counted in thousandths of a degree: the
\* nearest tenth, in thousandths again. A decimal tie goes to the even tenth
\* here; in the handler it goes by the binary value of the float, so the
\* inputs tried below avoid ties.
Round1(x) ==
    LET q == x \div 100
        r == x % 100
        up == r > 50 \/ (r = 50 /\ q % 2 = 1)
    IN  100 * (IF up THEN q + 1 ELSE q)

\* A whole number of miles per hour, counted in 1e-8 mph.
Mph(v) == v * 100000000

\* wind_mph = wind_speed_kmh * 0.621371: hundredths of a km/h become
\* 1e-8 mph.
KmhToMph(w) == w * 621371

\* A wrong applicability test: the boundaries 50 and 3 are left out.
WindChillApplicableStrict(T, V) == ~(T >= 50000 \/ V <= Mph(3))

\* _calculate_wind_chill, the branch: not (T > 50 or V < 3).
WindChillApplicable(T, V) == ~(T > 50000 \/ V < Mph(3))

\* _calculate_wind_chill, T in thousandths of a degree Fahrenheit, V in
\* 1e-8 mph. The value of the NWS formula (it takes V ** 0.16) is kept as the
\* expression, and the risk grading of that value as "graded".
WindChill(T, V) ==
    IF WindChillApplicable(T, V)
    THEN Payload([applicable |-> TRUE, formula |-> "NWS",
                  wind_chill_f |-> <<"NWS", T, V>>, risk_level |-> "graded"])
    ELSE Payload([applicable |-> FALSE, formula |-> "none",
                  wind_chill_f |-> Round1(T), risk_level |-> "Not applicable"])

\* _calculate_heat_index, the branch: not (T < 80).
UsesRegression(T) == ~(T < 80000)

\* _calculate_heat_index, the corrections of the regression: the
\* low-humidity one if R < 13 and 80 <= T <= 112, else the high-humidity one
\* if R > 85 and 80 <= T <= 87.
Corrections(T, R) ==
    IF R < 13 /\ 80000 <= T /\ T <= 112000 THEN {"low humidity"}
    ELSE IF R > 85 /\ 80000 <= T /\ T <= 87000 THEN {"high humidity"}
    ELSE {}

\* _calculate_heat_index, T in thousandths of a degree Fahrenheit, R in
\* percent. The value of the Rothfusz regression is kept as the expression.
HeatIndex(T, R) ==
    IF UsesRegression(T)
    THEN Payload([regression |-> TRUE, corrections |-> Corrections(T, R),
                  heat_index_f |-> <<"Rothfusz", T, R>>, risk_level |-> "graded"])
    ELSE Payload([regression |-> FALSE, corrections |-> {},
                  heat_index_f |-> Round1(T), risk_level |-> "No risk"])

\* T_f = (T * 9/5) + 32: hundredths of a degree Celsius become thousandths
\* of a degree Fahrenheit.
ToFahrenheit(T) == 18 * T + 32000

\* _calculate_feels_like, T in hundredths of a degree Celsius, W in
\* hundredths of a km/h: the heat index from 80 F, the wind chill up to 50 F
\* when wind_speed_kmh >= 4.8, the apparent temperature otherwise.
FeelsLike(T, RH, W) ==
    LET T_f == ToFahrenheit(T) IN
    IF T_f >= 80000
    THEN Payload([method_used |-> "Heat Index",
                  feels_like_f |-> HeatIndex(T_f, RH).payload.heat_index_f])
    ELSE IF T_f <= 50000 /\ W >= 480
    THEN Payload([method_used |-> "Wind Chill",
                  feels_like_f |-> WindChill(T_f, KmhToMph(W)).payload.wind_chill_f])
    ELSE IF DivisionFails(23770 + T) THEN Raised("ZeroDivisionError")
    ELSE IF ExpFails(17270 * T, 1000 * (23770 + T)) THEN Raised("OverflowError")
    ELSE Payload([method_used |-> "Apparent Temperature",
                  feels_like_f |-> <<"Steadman", T, RH, W>>])

\* Temperatures in thousandths of a degree Fahrenheit the handlers are
\* tried on.
TemperaturesF ==
    {-10000, 32000, 49990, 50000, 50010, 60040, 70040, 79960, 79990, 80000,
     80010, 87000, 87010, 95000, 112000, 112010}

\* Wind speeds in 1e-8 mph.
WindsMph ==
    {Mph(-5), Mph(0), Mph(3) - 1000000, Mph(3), Mph(3) + 1000000, Mph(10), Mph(20)}

\* Wind speeds in hundredths of a km/h.
WindsKmh == {-500, 0, 479, 480, 482, 483, 1000, 2000}

\* tools/call of calculate_feels_like.
CalculateFeelsLike ==
    /\ Serving("calculate_feels_like")
    /\ origin' = {}
    /\ \E T \in TemperaturesC, RH \in Humidities, W \in WindsKmh :
          /\ tool' = "calculate_feels_like"
          /\ args' = [temperature_c |-> T, humidity |-> RH, wind_speed_kmh |-> W]
          /\ result' = FeelsLike(T, RH, W)
    /\ CalcFrame

\* tools/call of calculate_wind_chill.
CalculateWindChill ==
    /\ Serving("calculate_wind_chill")
    /\ origin' = {}
    /\ \E T \in TemperaturesF, V \in WindsMph :
          /\ tool' = "calculate_wind_chill"
          /\ args' = [temperature_f |-> T, wind_speed_mph |-> V]
          /\ result' = WindChill(T, V)
    /\ CalcFrame

\* tools/call of calculate_heat_index.
CalculateHeatIndex ==
    /\ Serving("calculate_heat_index")
    /\ origin' = {}
    /\ \E T \in TemperaturesF, R \in Humidities :
          /\ tool' = "calculate_heat_index"
          /\ args' = [temperature_f |-> T, humidity |-> R]
          /\ result' = HeatIndex(T, R)
    /\ CalcFrame

\* n / d rounded to the nearest whole number, d > 0; a tie goes to the even
\* one.
RoundRatio(n, d) ==
    LET q == n \div d
        r == n % d
        up == 2 * r > d \/ (2 * r = d /\ q % 2 = 1)
    IN  IF up THEN q + 1 ELSE q

\* math.sin(math.radians(elevation)) in thousandths, for the elevations in
\* whole degrees tried below.
SinThousandths(elevation) ==
    CASE elevation = 1 -> 17
      [] elevation = 30 -> 500
      [] elevation = 45 -> 707
      [] elevation = 90 -> 1000
      [] elevation = 200 -> -342
      [] elevation = 270 -> -1000

\* max(a, b).
Max(a, b) == IF a >= b THEN a ELSE b

\* A wrong clamp: the composed value is only rounded.
Unclamped(n, d) == RoundRatio(n, d)

\* round(max(0, min(11, uv_index)), 1) for uv_index = n / (10 d), d > 0: the
\* UV index in tenths.
Clamped(n, d) ==
    IF n <= 0 THEN 0
    ELSE IF n >= 110 * d THEN 110
    ELSE RoundRatio(n, d)

\* _uv_index_from_solar_elevation, the elevation in whole degrees, the ozone
\* thickness in Dobson units, the cloud cover in percent; uv_index in tenths.
\* Above the horizon 11 sin(elevation) * 300 / max(ozone, 100) *
\* (1 - cloud / 100 * 0.8), which in tenths is
\* 33 sin1000 (1000 - 8 cloud) / (1000 max(ozone, 100)).
UVIndex(elevation, ozone_thickness, cloud_cover) ==
    IF elevation <= 0
    THEN Payload([uv_index |-> 0, composed |-> FALSE])
    ELSE Payload([uv_index |-> Clamped(33 * SinThousandths(elevation) * (1000 - 8 * cloud_cover),
                                       1000 * Max(ozone_thickness, 100)),
                  composed |-> TRUE])

\* Solar elevations in degrees, ozone thicknesses and cloud covers.
Elevations == {-10, 0, 1, 30, 45, 90, 200, 270}
Ozones == {-20, 0, 50, 100, 300, 500}
CloudCovers == {-50, 0, 50, 100, 125, 150}

\* tools/call of uv_index_from_solar_elevation.
UVIndexFromSolarElevation ==
    /\ Serving("uv_index_from_solar_elevation")
    /\ origin' = {}
    /\ \E e \in Elevations, o \in Ozones, c \in CloudCovers :
          /\ tool' = "uv_index_from_solar_elevation"
          /\ args' = [solar_elevation_degrees |-> e, ozone_thickness |-> o,
                      cloud_cover |-> c]
          /\ result' = UVIndex(e, o, c)
    /\ CalcFrame

\* int(n / d) for d > 0: the quotient cut off towards zero.
Truncate(n, d) == IF n >= 0 THEN n \div d ELSE -((-n) \div d)

\* 24 * math.acos(argument) / (2 * math.pi) in 1/3000 of an hour, for the
\* arguments in thousandths tried below.
HourAngle(argument) ==
    CASE argument = -1000 -> 36000
      [] argument = -999 -> 35487
      [] argument = -500 -> 24000
      [] argument = 0 -> 18000
      [] argument = 500 -> 12000
      [] argument = 999 -> 513
      [] argument = 1000 -> 0

\* decimal_to_time on a decimal hour counted in 1/3000 of an hour:
\* hours = int(decimal_hour) % 24, minutes = int((decimal_hour -
\* int(decimal_hour)) * 60), printed as hours:minutes.
DecimalToTime(decimal_hour) ==
    LET whole == Truncate(decimal_hour, 3000) IN
    [kind |-> "time", hours |-> whole % 24,
     minutes |-> Truncate(decimal_hour - 3000 * whole, 50)]

\* A field that holds a fixed text instead of a time.
Sentinel(text) == [kind |-> "sentinel", text |-> text]

\* A wrong variant test: an argument of exactly -1 or 1 counts as polar.
ConditionStrict(argument) ==
    IF argument <= -1000 THEN "polar_day"
    ELSE IF argument >= 1000 THEN "polar_night"
    ELSE "normal"

\* _sunrise_sunset_times, the branch on argument = -tan(lat) * tan(P).
Condition(argument) ==
    IF argument < -1000 THEN "polar_day"
    ELSE IF argument > 1000 THEN "polar_night"
    ELSE "normal"

\* _sunrise_sunset_times. The latitude and the day of the year enter only
\* through the hour-angle argument, which is given here in thousandths; the
\* longitude is in whole degrees, so longitude / 15 is 200 * longitude in
\* 1/3000 of an hour.
SunriseSunset(argument, longitude) ==
    LET condition == Condition(argument) IN
    IF condition = "polar_day"
    THEN Payload([condition |-> condition,
                  sunrise_utc |-> Sentinel("No sunset (polar day)"),
                  sunset_utc |-> Sentinel("No sunset (polar day)")])
    ELSE IF condition = "polar_night"
    THEN Payload([condition |-> condition,
                  sunrise_utc |-> Sentinel("No sunrise (polar night)"),
                  sunset_utc |-> Sentinel("No sunrise (polar night)")])
    ELSE Payload([condition |-> condition,
                  sunrise_utc |-> DecimalToTime(36000 - HourAngle(argument) - 200 * longitude),
                  sunset_utc |-> DecimalToTime(36000 + HourAngle(argument) - 200 * longitude)])

\* Hour-angle arguments in thousandths and longitudes in degrees.
Arguments == {-1500, -1001, -1000, -999, -500, 0, 500, 999, 1000, 1001, 1500}
Longitudes == {-180, -100, -1, 0, 1, 100, 180}

\* tools/call of sunrise_sunset_times.
SunriseSunsetTimes ==
    /\ Serving("sunrise_sunset_times")
    /\ origin' = {}
    /\ \E a \in Arguments, L \in Longitudes :
          /\ tool' = "sunrise_sunset_times"
          /\ args' = [argument |-> a, longitude |-> L]
          /\ result' = SunriseSunset(a, L)
    /\ CalcFrame

\* The tool definitions of _register_tools, by name, in the order of the list.
WeatherTools ==
    <<"celsius_to_fahrenheit", "fahrenheit_to_celsius", "calculate_heat_index",
      "calculate_wind_chill", "calculate_dew_point",
      "pressure_altitude_to_sea_level", "calculate_feels_like",
      "sunrise_sunset_times", "uv_index_from_solar_elevation",
      "saturation_vapor_pressure">>

\* register_tool of the base server: the named tool is entered in the
\* catalogue.
RegisterTool(cat, name) == Append(cat, name)

\* A wrong loop: it returns after the first tool.
RegisterOnlyFirst(cat, defs) ==
    IF defs = <<>> THEN cat ELSE RegisterTool(cat, Head(defs))

\* for tool_def in weather_tools: self.register_tool(...).
RECURSIVE RegisterEach(_, _)
RegisterEach(cat, defs) ==
    IF defs = <<>> THEN cat
    ELSE RegisterEach(RegisterTool(cat, Head(defs)), Tail(defs))

\* _register_tools, which the base server runs once while it is constructed.
RegisterTools ==
    /\ driver = "server"
    /\ catalogue = <<>>
    /\ catalogue' = RegisterEach(catalogue, WeatherTools)
    /\ UNCHANGED <<driverVars, stdioVars, httpVars, benchVars, mainVars, concVars,
                   histVars, pollVars, idVars, tool, args, result, origin>>

\* What round(n / d, ...) can give, d > 0: the nearest whole number. On a
\* decimal tie the float the handler holds lies on either side, so both
\* neighbours are possible.
Roundings(n, d) ==
    LET q == n \div d
        r == n % d
    IN  IF 2 * r < d THEN {q} ELSE IF 2 * r > d THEN {q + 1} ELSE {q, q + 1}

\* (celsius * 9/5) + 32, celsius in thousandths of a degree, the value in
\* 1/5000 of a degree.
Fahrenheit(celsius) == 9 * celsius + 160000

\* A wrong conversion: fahrenheit - 32 * 5/9.
CelsiusWithoutBrackets(fahrenheit) == 9 * fahrenheit - 160000

\* (fahrenheit - 32) * 5/9, fahrenheit in thousandths of a degree, the value
\* in 1/9000 of a degree.
Celsius(fahrenheit) == 5 * (fahrenheit - 32000)

\* Temperatures in thousandths of a degree the conversions are tried on.
CelsiusInputs ==
    {-273150, -40000, -195, -1, 0, 1, 5, 125, 25000, 36666, 37000, 99999, 100000}
FahrenheitInputs == {-40000, 0, 32000, 77000, 98600, 212000}

\* tools/call of celsius_to_fahrenheit; fahrenheit is returned in hundredths.
CallCelsiusToFahrenheit ==
    /\ Serving("celsius_to_fahrenheit")
    /\ origin' = {}
    /\ \E c \in CelsiusInputs :
          \E f \in Roundings(Fahrenheit(c), 50) :
              /\ tool' = "celsius_to_fahrenheit"
              /\ args' = [celsius |-> c]
              /\ result' = Payload([fahrenheit |-> f])
    /\ CalcFrame

\* What a caller passes to fahrenheit_to_celsius: a temperature of its own,
\* or the fahrenheit value the call before has returned.
FahrenheitArguments ==
    {[fahrenheit |-> f, origin |-> {}] : f \in FahrenheitInputs}
    \cup (IF tool = "celsius_to_fahrenheit"
          THEN {[fahrenheit |-> 10 * result.payload.fahrenheit,
                 origin |-> {args.celsius}]}
          ELSE {})

\* tools/call of fahrenheit_to_celsius; celsius is returned in hundredths.
CallFahrenheitToCelsius ==
    /\ Serving("fahrenheit_to_celsius")
    /\ \E a \in FahrenheitArguments :
          \E c \in Roundings(Celsius(a.fahrenheit), 90) :
              /\ tool' = "fahrenheit_to_celsius"
              /\ args' = [fahrenheit |-> a.fahrenheit]
              /\ result' = Payload([celsius |-> c])
              /\ origin' = a.origin
    /\ CalcFrame

\* The server process, before its tools are registered.
CalcInit ==
    /\ client = "stdio"
    /\ driver = "server"
    /\ ClientInit
    /\ NoBenchmark
    /\ NoMain
    /\ NoWorkers
    /\ NoCalculation
    /\ NoPoll
    /\ NoRequestIds
    /\ port_taken = FALSE

\* The server handles one tools/call after another; no handler keeps state.
CalcNext ==
    \/ RegisterTools
    \/ CallCelsiusToFahrenheit
    \/ CallFahrenheitToCelsius
    \/ CalculateDewPoint
    \/ PressureAltitudeToSeaLevel
    \/ CallSaturationVaporPressure
    \/ CalculateFeelsLike
    \/ CalculateWindChill
    \/ CalculateHeatIndex
    \/ UVIndexFromSolarElevation
    \/ SunriseSunsetTimes

SpecCalc == CalcInit /\ [][CalcNext]_vars

\* ------------------------------------------------------------------ claims

\* C1: a response that the stdio send_message hands to its caller, and that
\* the caller takes as the answer, carries the id of the request that this
\* call wrote.
C1_ResponseIdIsRequestId ==
    (last.outcome = "returned" /\ last.resp # NoResp) => last.resp.id = last.id

\* C2: in both clients the ids of the request envelopes are 1, 2, 3, ... in
\* call order, whatever calls failed in between, and the counter stands at
\* the last id given out.
C2_IdsCountFromOne ==
    /\ \A i \in DOMAIN envelopes : envelopes[i].id = i
    /\ client = "stdio" => message_id = Len(envelopes)
    /\ client = "http" => http_message_id = Len(envelopes)

\* C2's case: a call failed, and the request written after it has id 2.
C2_Witness ==
    /\ last.outcome \in {"Timeout", "MalformedResponse", "InvocationError"}
    /\ pc = "await_line"
    /\ cur.id = 2
    /\ Len(envelopes) = 2

\* The requests the server has been sent and has not answered.
Outstanding == {i \in DOMAIN stdin : stdin[i].id # NoId}

\* C3: in a run of a demonstration function at most one request of the
\* connection is written and not yet answered.
C3_OneOutstandingRequest ==
    driver = "demo" => Cardinality(Outstanding) <= 1

\* C6: in a run of a demonstration function (every call is made on a client
\* whose start() returned), a call in which send_message fails ends as
\* Timeout, as ProcessTerminated or as MalformedResponse, and in no other way.
C6_FailuresAreClassified ==
    (/\ driver = "demo"
     /\ last.op \in Ops
     /\ last.resp = NoResp
     /\ last.outcome # "returned")
        => last.outcome \in {"Timeout", "ProcessTerminated", "MalformedResponse"}

\* C7: the HTTP send_message reports a request timeout as the timeout error,
\* any other transport error as the transport error, and a body that is no
\* JSON as neither of the two.
C7_FailureKindsAreDistinct ==
    /\ http_last.raised = "ReadTimeout" => http_last.outcome = "Timeout"
    /\ http_last.raised = "ConnectError" => http_last.outcome = "TransportError"
    /\ http_last.raised = "JSONDecodeError" =>
          http_last.outcome \notin {"Timeout", "TransportError"}

\* How C8 reads one ended call of initialize, list_tools or call_tool that got
\* a response: the invocation error is raised exactly for a non-null error
\* and carries it; a call that returns hands back the result of a response
\* without error; and a response with a result and no error is returned
\* (pipeMayFail: the stdio initialize, whose notification is still to write).
Dispatched(l, pipeMayFail) ==
    (l.op \in Wrappers /\ l.resp # NoResp) =>
        /\ (l.outcome = "InvocationError") <=> (l.resp.error = "E")
        /\ l.outcome = "InvocationError" => l.value = l.resp.error
        /\ l.outcome = "returned" =>
              /\ l.resp.error # "E"
              /\ l.resp.result # "absent"
              /\ l.value = IF l.op = "list_tools" THEN "tools" ELSE l.resp.result
        /\ (l.resp.error # "E" /\ l.resp.result # "absent") =>
              \/ l.outcome = "returned"
              \/ pipeMayFail /\ l.op = "initialize" /\ l.outcome = "PipeError"

C5_EveryRequestCarriesSession ==
    /\ \A i \in DOMAIN http_sent :
          http_sent[i].observed \notin {"absent", ""}
              => http_sent[i].header = http_sent[i].observed
    /\ observed # "absent" => session_id = observed

\* C5, amended: every request of send_message (the POST to /mcp) carries the
\* latest mcp-session-id a response has brought when that value is not empty,
\* and no session header otherwise; the stored id is the latest observed
\* value from the first observation on.
C5_EveryPostCarriesSession ==
    /\ \A i \in DOMAIN http_sent :
          http_sent[i].verb = "POST /mcp" =>
              http_sent[i].header = IF http_sent[i].observed \in {"absent", ""}
                                    THEN "absent"
                                    ELSE http_sent[i].observed
    /\ observed # "absent" => session_id = observed

\* C5's case: the second POST carries the id the first response brought.
C5_Witness ==
    /\ Len(http_sent) = 2
    /\ http_sent[2].verb = "POST /mcp"
    /\ http_sent[2].observed = "s1"
    /\ http_sent[2].header = "s1"

\* C4: on the connection of the stdio benchmark, initialize is the first
\* request, and a tools/list or tools/call request is sent only after the
\* initialize request got a response without an error.
C4_ToolsOnlyAfterInitialize ==
    driver = "bench" =>
        \A i \in DOMAIN envelopes :
            /\ i = 1 => envelopes[i].method = "initialize"
            /\ envelopes[i].method \in {"tools/list", "tools/call"} =>
                  /\ init_resp # NoResp
                  /\ GetError(init_resp) = None

\* C9: when the run of the stdio benchmark has ended, by its return or by
\* the exception that main() handles, the server subprocess it started has
\* exited.
C9_ServerExitedAtRunEnd ==
    (driver = "bench" /\ bpc \in {"returned", "ended"} /\ process # None)
        => ~alive

\* The function s has been entered.
Ran(s) == \E i \in DOMAIN StepsOf(client, s) : <<s, i>> \in attempted

\* The function s has been left.
Left(s) ==
    \/ stage \in {"cleanup", "end"}
    \/ \E j, k \in DOMAIN Stages : Stages[j] = s /\ Stages[k] = stage /\ j < k

\* The tool calls of s, as steps.
ToolSteps(s) ==
    {<<s, i>> : i \in {j \in DOMAIN StepsOf(client, s) :
                          StepsOf(client, s)[j].op = "call_tool"}}

\* Every failure was printed, and a demonstration that made its first tool
\* call made them all.
FailuresArePrintedAndLoopsGoOn ==
    /\ failed \subseteq printed
    /\ \A k \in DOMAIN Demonstrations :
          LET d == Demonstrations[k] IN
          (Left(d) /\ ToolSteps(d) \cap attempted # {})
              => ToolSteps(d) \subseteq attempted

\* C10 as stated: every failure is printed, a failed tool call does not keep
\* the later tool calls of its demonstration from being made, and after the
\* connectivity check, failed or not, every demonstration is attempted.
C10_RunContinuesAfterFailure ==
    /\ FailuresArePrintedAndLoopsGoOn
    /\ (stage = "end" /\ Ran("connectivity"))
          => \A k \in DOMAIN Demonstrations : Ran(Demonstrations[k])

\* C10, amended: every failure is printed, a failed tool call does not keep
\* the later tool calls of its demonstration from being made, a failed
\* demonstration does not keep the later ones from being attempted; the
\* demonstrations are attempted exactly when the connectivity check passed.
C10_RunContinuesAfterConnectivity ==
    /\ FailuresArePrintedAndLoopsGoOn
    /\ (stage = "end" /\ server_works = "True")
          => \A k \in DOMAIN Demonstrations : Ran(Demonstrations[k])
    /\ server_works # "True"
          => \A k \in DOMAIN Demonstrations : ~Ran(Demonstrations[k])
    /\ (server_works = "True") <=> (Left("connectivity") /\ Ran("connectivity")
                                    /\ ~Aborted("connectivity"))

\* C10's case: a tool call of the first demonstration failed and its last
\* tool call was made all the same; the second demonstration failed at its
\* initialize; the third was attempted.
C10_Witness ==
    /\ stage = "end"
    /\ \E t \in ToolSteps("temperature") :
          /\ t \in failed
          /\ \E u \in ToolSteps("temperature") : u[2] > t[2] /\ u \in attempted
    /\ <<"indices", 2>> \in failed
    /\ Ran("advanced")

\* The stdio client straight after a call of initialize: when it returned, the
\* last two lines written are the initialize request and the notification
\* without id; when the response carried an error, no notification was
\* written; no line was read for a notification.
StdioNotifiesOnce ==
    /\ (client = "stdio" /\ pc = "idle" /\ last.op = "initialize"
        /\ last.outcome = "returned") =>
          /\ Len(wire) >= 2
          /\ wire[Len(wire)] = Notification
          /\ wire[Len(wire) - 1] = [id |-> last.id, method |-> "initialize"]
    /\ (client = "stdio" /\ pc = "idle" /\ last.op = "initialize"
        /\ last.outcome = "InvocationError") =>
          wire[Len(wire)] = [id |-> last.id, method |-> "initialize"]
    /\ client = "stdio" =>
          nread <= Cardinality({i \in DOMAIN wire : wire[i].id # NoId})

\* The HTTP client straight after a call of initialize that returned: a
\* message without id has been posted to /mcp.
HttpNotifies ==
    (client = "http" /\ http_last.op = "initialize" /\ http_last.outcome = "returned") =>
        \E i \in DOMAIN http_sent :
            http_sent[i].verb = "POST /mcp" /\ http_sent[i].id = NoId

\* C11: in both clients a successful initialize() is followed by one
\* notifications/initialized message, which has no id and gets no response
\* read, and which is not sent after an error response.
C11_InitializedNotificationFollows ==
    /\ StdioNotifiesOnce
    /\ HttpNotifies

\* The request lines among the lines written.
RequestLines == {i \in DOMAIN wire : wire[i].id # NoId}

\* Every call that is waiting or has waited wrote its request as one line,
\* before the wait began, and no more lines were read than requests written.
OneLineWrittenBeforeWaiting ==
    /\ \A i, j \in RequestLines : wire[i].id = wire[j].id => i = j
    /\ pc = "await_line" =>
          \E i \in RequestLines :
              /\ wire[i].id = cur.id
              /\ \A j \in RequestLines : j <= i
    /\ nread <= Cardinality(RequestLines)

\* C12 as stated: one line is written and drained per call before its wait,
\* and the number of lines read is the number of calls that returned a
\* response.
C12_LinesReadAreResponsesReturned ==
    client = "stdio" =>
        /\ OneLineWrittenBeforeWaiting
        /\ nread = nreturned

\* C12, amended: one line is written and drained per call before its wait,
\* and the number of lines read is the number of calls that returned a
\* response plus the number of calls that failed on a line that was no JSON.
C12_LinesReadAreLinesParsed ==
    client = "stdio" =>
        /\ OneLineWrittenBeforeWaiting
        /\ nread = nreturned + nmalformed
        /\ nreturned + nmalformed <= Len(envelopes)

\* C12's case: of three calls one returned a response, one read a line that
\* was no JSON, and one timed out without reading any line.
C12_Witness ==
    /\ pc = "idle"
    /\ nreturned = 1 /\ nmalformed = 1
    /\ Len(envelopes) = 3 /\ Cardinality(RequestLines) = 3
    /\ last.outcome = "Timeout"

\* The workers that have added their results to the shared accumulators.
Published == {w \in Workers : wpc[w] = "done"}

\* C13: a worker touches the shared accumulators only when it has finished
\* all its operations, no update is lost under any interleaving, and when
\* gather returns the accumulators hold concurrency times
\* (total_operations // concurrency) operations.
C13_NoUpdateIsLost ==
    driver = "concurrent" =>
        /\ \A i \in DOMAIN all_latencies : all_latencies[i] \in Published
        /\ Len(all_latencies) + total_errors
              = Cardinality(Published) * OperationsPerWorker
        /\ gpc = "returned" =>
              Len(all_latencies) + total_errors = Concurrency * OperationsPerWorker

\* C13's case: gather has returned, both accumulators are in use, two
\* workers counted errors, and the worker created first was not the first
\* to add its results.
C13_Witness ==
    /\ gpc = "returned"
    /\ Len(all_latencies) >= 2
    /\ all_latencies[1] # 0
    /\ \E v, w \in Workers : v # w /\ worker_errors[v] > 0 /\ worker_errors[w] > 0

\* C14: every calculation tool is total: whatever numbers it is called with,
\* its handler returns a result payload and raises nothing.
C14_EveryCalculationIsTotal ==
    tool # "none" => result.raised = None

\* The wind of a calculate_feels_like call, converted to mph, is at least 3.
WindAtLeast3Mph == KmhToMph(args.wind_speed_kmh) >= Mph(3)

\* C15: calculate_feels_like selects 'Heat Index' exactly when the Fahrenheit
\* temperature is at least 80, otherwise 'Wind Chill' exactly when it is at
\* most 50 and the wind converted to mph is at least 3, otherwise 'Apparent
\* Temperature'.
C15_FeelsLikeSelectsByThresholds ==
    (tool = "calculate_feels_like" /\ result.raised = None) =>
        LET T_f == ToFahrenheit(args.temperature_c) IN
        result.payload.method_used =
            IF T_f >= 80000 THEN "Heat Index"
            ELSE IF T_f <= 50000 /\ WindAtLeast3Mph THEN "Wind Chill"
            ELSE "Apparent Temperature"

\* y is x rounded to one decimal place: a whole number of tenths, at most
\* half a tenth away from x (both in thousandths).
IsRoundedToTenth(x, y) == y % 100 = 0 /\ Abs(y - x) <= 50

\* The claim's condition for the wind chill not to apply.
C16_Inapplicable == args.temperature_f > 50000 \/ args.wind_speed_mph < Mph(3)

\* C16 as stated: calculate_wind_chill returns applicable=false, wind_chill_f
\* equal to the input temperature and risk level 'Not applicable' exactly
\* when temperature_f > 50 or wind_speed_mph < 3, and applicable=true with
\* the formula applied in every other case, the boundaries 50 and 3 included.
C16_WindChillFallsBackToInput ==
    tool = "calculate_wind_chill" =>
        /\ result.raised = None
        /\ result.payload.applicable = ~C16_Inapplicable
        /\ C16_Inapplicable =>
              /\ result.payload.wind_chill_f = args.temperature_f
              /\ result.payload.risk_level = "Not applicable"
        /\ ~C16_Inapplicable =>
              /\ result.payload.formula = "NWS"
              /\ result.payload.risk_level # "Not applicable"

\* C16, amended: as above, but the wind_chill_f returned when the wind chill
\* does not apply is the input temperature rounded to one decimal place.
C16_WindChillFallsBackToRoundedInput ==
    tool = "calculate_wind_chill" =>
        /\ result.raised = None
        /\ result.payload.applicable = ~C16_Inapplicable
        /\ C16_Inapplicable =>
              /\ IsRoundedToTenth(args.temperature_f, result.payload.wind_chill_f)
              /\ result.payload.risk_level = "Not applicable"
        /\ ~C16_Inapplicable =>
              /\ result.payload.formula = "NWS"
              /\ result.payload.risk_level # "Not applicable"

\* calculate_wind_chill(60.04, 10) has answered: not applicable, 60.0.
C16_Witness ==
    /\ tool = "calculate_wind_chill"
    /\ args = [temperature_f |-> 60040, wind_speed_mph |-> Mph(10)]
    /\ result.payload.applicable = FALSE
    /\ result.payload.wind_chill_f = 60000
    /\ result.payload.risk_level = "Not applicable"

\* C17 as stated: calculate_heat_index returns the input temperature
\* unchanged, without regression or correction, for every temperature_f < 80;
\* from 80 on the regression is applied with at most one of the two
\* corrections.
C17_HeatIndexPassesInputThrough ==
    tool = "calculate_heat_index" =>
        /\ result.raised = None
        /\ args.temperature_f < 80000 =>
              /\ ~result.payload.regression
              /\ result.payload.corrections = {}
              /\ result.payload.heat_index_f = args.temperature_f
        /\ args.temperature_f >= 80000 =>
              /\ result.payload.regression
              /\ result.payload.corrections \subseteq {"low humidity", "high humidity"}
              /\ Cardinality(result.payload.corrections) <= 1

\* C17, amended: as above, but below 80 the heat_index_f returned is the
\* input temperature rounded to one decimal place.
C17_HeatIndexPassesRoundedInputThrough ==
    tool = "calculate_heat_index" =>
        /\ result.raised = None
        /\ args.temperature_f < 80000 =>
              /\ ~result.payload.regression
              /\ result.payload.corrections = {}
              /\ IsRoundedToTenth(args.temperature_f, result.payload.heat_index_f)
        /\ args.temperature_f >= 80000 =>
              /\ result.payload.regression
              /\ result.payload.corrections \subseteq {"low humidity", "high humidity"}
              /\ Cardinality(result.payload.corrections) <= 1

\* calculate_heat_index(79.96, 50) has answered 80.0 without regression.
C17_Witness ==
    /\ tool = "calculate_heat_index"
    /\ args = [temperature_f |-> 79960, humidity |-> 50]
    /\ ~result.payload.regression
    /\ result.payload.heat_index_f = 80000

\* C18: uv_index_from_solar_elevation returns uv_index 0 for every elevation
\* at or below the horizon whatever the ozone and cloud parameters, and a
\* uv_index in [0, 11] for every other input (here in tenths: 0..110).
C18_UVIndexIsClamped ==
    tool = "uv_index_from_solar_elevation" =>
        /\ result.raised = None
        /\ args.solar_elevation_degrees <= 0 => result.payload.uv_index = 0
        /\ result.payload.uv_index >= 0
        /\ result.payload.uv_index <= 110

\* The sun overhead under 50 Dobson units of ozone and a clear sky: three
\* times 11 was composed, 11 is returned.
C18_Witness ==
    /\ tool = "uv_index_from_solar_elevation"
    /\ args = [solar_elevation_degrees |-> 90, ozone_thickness |-> 50, cloud_cover |-> 0]
    /\ result.payload.composed
    /\ result.payload.uv_index = 110

\* C19: saturation_vapor_pressure reports phase 'water' with the over-water
\* constants exactly when temperature_c >= 0 and phase 'ice' with the
\* over-ice constants exactly when temperature_c < 0; zero is water.
C19_PhaseFollowsSign ==
    tool = "saturation_vapor_pressure" =>
        /\ result.raised = None
        /\ args.temperature_c >= 0 =>
              result.payload = [phase |-> "water", constants |-> OverWater]
        /\ args.temperature_c < 0 =>
              result.payload = [phase |-> "ice", constants |-> OverIce]

\* C20: sunrise_sunset_times returns exactly one of three variants chosen by
\* the hour-angle argument: 'polar_day' with sentinel strings below -1,
\* 'polar_night' with sentinel strings above 1, 'normal' with two computed
\* times from -1 to 1, both bounds included; the tag and the kind of both
\* fields agree.
C20_VariantFollowsArgument ==
    tool = "sunrise_sunset_times" =>
        LET r == result.payload
            kinds == {r.sunrise_utc.kind, r.sunset_utc.kind}
        IN  /\ result.raised = None
            /\ r.condition \in {"polar_day", "polar_night", "normal"}
            /\ (r.condition = "polar_day") = (args.argument < -1000)
            /\ (r.condition = "polar_night") = (args.argument > 1000)
            /\ (r.condition = "normal") = (-1000 <= args.argument /\ args.argument <= 1000)
            /\ kinds = IF r.condition = "normal" THEN {"time"} ELSE {"sentinel"}

\* An argument of exactly 1 has given the normal variant: the sun rises and
\* sets in the same minute.
C20_Witness ==
    /\ tool = "sunrise_sunset_times"
    /\ args = [argument |-> 1000, longitude |-> 0]
    /\ result.payload.condition = "normal"
    /\ result.payload.sunrise_utc = [kind |-> "time", hours |-> 12, minutes |-> 0]
    /\ result.payload.sunset_utc = result.payload.sunrise_utc

\* C21: feeding the fahrenheit value celsius_to_fahrenheit returned for c to
\* fahrenheit_to_celsius gives c back within the tolerance of the two
\* 2-decimal roundings, 0.005 * 5/9 + 0.005 degrees (70/9 thousandths); and
\* 0 gives 32.0, 25 gives 77.0, 32 F gives 0.0.
C21_RoundTripWithinRounding ==
    /\ tool = "fahrenheit_to_celsius" =>
          /\ \A c \in origin : 9 * Abs(10 * result.payload.celsius - c) <= 70
          /\ args.fahrenheit = 32000 => result.payload.celsius = 0
    /\ tool = "celsius_to_fahrenheit" =>
          /\ args.celsius = 0 => result.payload.fahrenheit = 3200
          /\ args.celsius = 25000 => result.payload.fahrenheit = 7700

\* 0.125 C went out as 32.23 F and came back as 0.13 C.
C21_Witness ==
    /\ tool = "fahrenheit_to_celsius"
    /\ origin = {125}
    /\ args.fahrenheit = 32230
    /\ result.payload.celsius = 13

\* C23: once _register_tools has run, the catalogue holds its ten tools, each
\* registered exactly once under pairwise distinct names, with
\* celsius_to_fahrenheit among them, and no later step registers, replaces
\* or removes a tool: every call of register_tool ever made is in the
\* catalogue, and it stays those ten whatever tools are called.
C23_CatalogueIsFixedAtStartup ==
    (driver = "server" /\ catalogue # <<>>) =>
        /\ Len(catalogue) = 10
        /\ Cardinality(Registered) = 10
        /\ \A i, j \in DOMAIN catalogue : catalogue[i] = catalogue[j] => i = j
        /\ "celsius_to_fahrenheit" \in Registered
        /\ catalogue = WeatherTools
        /\ tool # "none" => tool \in Registered

\* A registered tool has been called after start-up and the catalogue still
\* holds the ten tools.
C23_Witness ==
    /\ tool = "celsius_to_fahrenheit"
    /\ result.raised = None
    /\ Len(catalogue) = 10
    /\ catalogue[1] = "celsius_to_fahrenheit"
    /\ catalogue[10] = "saturation_vapor_pressure"

\* C24: the HTTP readiness poll ends after at most max_attempts health
\* probes with one of three outcomes: ready (a probe returned 200), failed
\* because the subprocess exited, or failed as not ready after the last
\* attempt, and then terminate() has been sent to the subprocess by the time
\* the failure is reported.
C24_PollEndsInOneOfThreeWays ==
    /\ probes <= MaxAttempts
    /\ poll_outcome \in {"none", "ready", "exited", "not ready"}
    /\ poll_outcome # "none" => probes >= 1
    /\ poll_outcome = "not ready" => (probes = MaxAttempts /\ terminate_sent)

\* C25: the readiness poll reports the server ready only when the
\* subprocess it started is still running.
C25_ReadyOnlyWhenRunning ==
    [][(poll_outcome # "ready" /\ poll_outcome' = "ready") => alive]_vars

\* A time is well-formed: the hour in 00..23 and the minute in 00..59.
WellFormedTime(t) ==
    /\ t.kind = "time"
    /\ t.hours \in 0..23
    /\ t.minutes \in 0..59

\* C26: in the 'normal' variant of sunrise_sunset_times both returned times
\* are well-formed HH:MM strings, also when the decimal hour is negative or
\* 24 and more.
C26_NormalTimesAreWellFormed ==
    (tool = "sunrise_sunset_times" /\ result.payload.condition = "normal") =>
        /\ WellFormedTime(result.payload.sunrise_utc)
        /\ WellFormedTime(result.payload.sunset_utc)

\* The calculate_wind_chill call a calculate_feels_like call delegates to.
Delegated ==
    WindChill(ToFahrenheit(args.temperature_c), KmhToMph(args.wind_speed_kmh))

\* C27: whenever calculate_feels_like reports method_used 'Wind Chill', the
\* delegated calculate_wind_chill call was applicable, so the value reported
\* is the value of the wind-chill formula, for every wind_speed_kmh >= 4.8.
C27_WindChillMethodMeansApplicable ==
    (/\ tool = "calculate_feels_like"
     /\ result.raised = None
     /\ result.payload.method_used = "Wind Chill") =>
        /\ Delegated.payload.applicable
        /\ Delegated.payload.formula = "NWS"
        /\ result.payload.feels_like_f = Delegated.payload.wind_chill_f

\* C28: send_message on a client that was not started fails with the 'not
\* started' error and leaves the client as it was: message_id keeps its
\* value and nothing is written, for the stdio and for the HTTP client; the
\* first request written afterwards still has id 1.
C28_NotStartedConsumesNoId ==
    [][/\ (client = "stdio" /\ ncalls' = ncalls + 1 /\ process = None) =>
              /\ last'.outcome = "NotStarted"
              /\ pc' = "idle"
              /\ UNCHANGED <<process, message_id, stdin, wire, envelopes>>
       /\ (client = "http" /\ ncalls' = ncalls + 1 /\ session = None
              /\ http_last'.op \in Ops) =>
              /\ http_last'.outcome = "NotStarted"
              /\ UNCHANGED <<session, session_id, http_message_id, http_sent, envelopes>>
       /\ envelopes' # <<>> => envelopes'[1].id = 1]_vars

\* A call was refused before start(); the call after start() wrote id 1 and
\* got its response.
C28_Witness ==
    /\ client = "stdio"
    /\ process # None
    /\ ncalls = 2
    /\ Len(envelopes) = 1
    /\ pc = "idle"
    /\ last.outcome = "returned"
    /\ last.id = 1

\* C29: the stdio single-connection benchmark returns a BenchmarkResult for
\* every outcome of its operations: computing the latency statistics never
\* raises, and at the return the recorded latencies plus the errors equal
\* operations and success_rate lies in [0, 100].
C29_BenchmarkAlwaysReturnsResult ==
    driver = "bench" =>
        /\ bpc # "StatisticsError"
        /\ bpc = "returned" =>
              /\ Latencies + errors = Operations
              /\ SuccessRate \in 0..100

\* C30: in benchmark_http_concurrent the request ids worker_id * 1000 and
\* worker_id * 1000 + i + 1 are pairwise distinct across all workers and all
\* operations: no id is posted twice, for every total_operations and
\* concurrency followed.
C30_RequestIdsAreDistinct ==
    driver = "tasks" => Cardinality(request_ids) = nposted

====
